---- MODULE Spec2Model ----
(***************************************************************************)
(* State-machine model of the reader core of src/app.js: the session       *)
(* (openBook / hideReader), progressive page rendering (renderPage,        *)
(* ensurePagesRendered, preloadInitialPages, startBackgroundRendering),    *)
(* the page-flip animator wiring (initializePageFlip, the flip handler,    *)
(* resize recreation) and narration (startTTSForPage, toggleTTS, stopTTS). *)
(*                                                                         *)
(* The program is single-threaded: a step of the model is one macrotask    *)
(* (a user event, a timer, or the settlement of a promise of the document  *)
(* source / an event of the speech engine) together with every             *)
(* continuation that runs without a further suspension. Handlers are       *)
(* written as operators from a state record to a state record so that a    *)
(* handler that calls another one is their composition.                    *)
(***************************************************************************)
EXTENDS Integers, Sequences, FiniteSets, Bags, TLC

\* ---------------------------------------------------------------- bounds
MaxPages == 7
MaxInputs == 3
MaxFaults == 1
MaxTasks == 2

\* ------------------------------------------------------ program constants
PRELOAD_PAGES == 3
MOBILE_BREAKPOINT == 768
BATCH_SIZE == 3

\* ------------------------------------------------------------ environment
Books == {1, 2, 3}
\* Book 1 is the long book (more pages than the preload and one background
\* batch take), book 2 a two-page leaflet, book 3 has one page beyond the
\* preload.
NumPages(b) ==
    CASE b = 1 -> MaxPages
      [] b = 2 -> 2
      [] b = 3 -> PRELOAD_PAGES + 1
Pages == 1..MaxPages
Widths == {500, 1024}
\* The viewports a session may start with: widths around the breakpoint,
\* heights around the one below which the page height is the minimum.
ViewportWidths == Widths \cup {767, 768, 769}
ViewportHeights == {300, 499, 500, 501, 800}

\* Text of a page, as the document source extracts it: its length and the
\* character offsets at which a word starts. The last page of book 1 and
\* the second page of book 3 have no extractable text.
WordStarts == {0, 5, 12}
FullLen == 15
TextLen(d, p) ==
    IF (d = 1 /\ p = NumPages(1)) \/ (d = 3 /\ p = 2) THEN 0 ELSE FullLen

Min(a, b) == IF a <= b THEN a ELSE b
Max(a, b) == IF a >= b THEN a ELSE b

\* A suspended async function: what it is (kind), its page argument and
\* second argument, the document its fetches were issued to, and the pages
\* whose fetch has not settled. Two fields are bookkeeping of the model, not
\* of the program: failed (the pages whose fetch failed) and stale (the
\* reader was closed after the function was suspended).
Task(k, p, a, d, w) ==
    [kind |-> k, page |-> p, arg |-> a, doc |-> d, waiting |-> w,
     failed |-> {}, stale |-> FALSE]

VARIABLES
    currentBook,        \* 0 = null, else the book
    pdfDoc,             \* 0 = null, else the document (of that book)
    pageFlip,           \* <<>> = null, else <<animator>>
    totalPages,
    currentPage,
    renderedPages,      \* page -> 0 (absent) or the document it was rendered from
    renderQueue,
    backgroundRendering,
    pageTextCache,      \* page -> 0 (absent) or the document its text came from
    currentLayoutMode,
    speaking,
    paused,
    speakIndex,
    readerShown,        \* readerEl.style.display ~= 'none'
    dom,                \* flipbookEl's .page elements: 0 = placeholder, else image of that document
    toast,              \* toastEl.textContent
    innerWidth,         \* window.innerWidth
    innerHeight,        \* window.innerHeight
    hasOrientation,     \* 'onorientationchange' in window
    alive,              \* PageFlip instances created and not destroyed
    synth,              \* the speech engine: current utterance, paused flag, cancelled utterances
    hasSpeech,          \* 'speechSynthesis' in window
    pauseWorks,         \* whether the engine honours pause()
    cancelEvent,        \* what the engine fires on an utterance that cancel() removes: "none", "end" or "error"
    loadingOverlay,     \* loadingOverlayEl is displayed
    tasks,              \* bag of suspended async functions, each with the fetches it awaits
    bgTimer,            \* setTimeout(renderNextBatch, BATCH_RENDER_DELAY) pending
    advTimers,          \* pending setTimeout(() => startTTSForPage(p, 0)) of narration
    resizeTimer,        \* the resize listener's 300ms debounce timer pending
    resizeTimeout,      \* window.resizeTimeout (250ms) pending
    orientTimer,        \* the orientationchange listener's 500ms timer pending
    ev,                 \* what happened in the last step: the render that settled, the toast shown, the page asked of the slider
    ensured,            \* <<>>, or the ensurePagesRendered call that completed in the last step
    budget,             \* user inputs and viewport changes the behaviour may still contain
    faults,             \* failures the document source and the speech engine may still produce
    last                \* the handler that ran in the last step

vars == <<currentBook, pdfDoc, pageFlip, totalPages, currentPage, renderedPages,
          renderQueue, backgroundRendering, pageTextCache, currentLayoutMode,
          speaking, paused, speakIndex, readerShown, dom, toast, innerWidth,
          innerHeight, hasOrientation, orientTimer, ev,
          alive, synth, hasSpeech, pauseWorks, cancelEvent, loadingOverlay, tasks,
          bgTimer, advTimers,
          resizeTimer, resizeTimeout, ensured, budget, faults, last>>

\* Bookkeeping of the last step: rendered is <<>> or the render that settled
\* (its page, its document, whether it succeeded, the kind of the function
\* awaiting it, the pages that function still awaits, and whether the reader
\* was closed since it was requested); reported is the message showToast
\* was called with (or ""); request is the page asked of the slider (or -1).
NoEvent == [rendered |-> <<>>, reported |-> "", request |-> -1]

\* The program state as one record; ovf marks a run that would need more
\* suspended tasks than MaxTasks.
St ==
    [currentBook |-> currentBook, pdfDoc |-> pdfDoc, pageFlip |-> pageFlip,
     totalPages |-> totalPages, currentPage |-> currentPage,
     renderedPages |-> renderedPages, renderQueue |-> renderQueue,
     backgroundRendering |-> backgroundRendering, pageTextCache |-> pageTextCache,
     currentLayoutMode |-> currentLayoutMode, speaking |-> speaking,
     paused |-> paused, speakIndex |-> speakIndex, readerShown |-> readerShown,
     dom |-> dom, toast |-> toast, innerWidth |-> innerWidth, alive |-> alive,
     innerHeight |-> innerHeight, hasOrientation |-> hasOrientation,
     orientTimer |-> orientTimer, ev |-> NoEvent,
     synth |-> synth, hasSpeech |-> hasSpeech, pauseWorks |-> pauseWorks,
     cancelEvent |-> cancelEvent, loadingOverlay |-> loadingOverlay,
     tasks |-> tasks, bgTimer |-> bgTimer, advTimers |-> advTimers,
     resizeTimer |-> resizeTimer, resizeTimeout |-> resizeTimeout,
     ensured |-> <<>>, budget |-> budget, faults |-> faults, ovf |-> FALSE]

Commit(s, name) ==
    /\ ~s.ovf
    /\ synth.dying = {} \/ name \in {"onendCancelled", "onerrorCancelled"}
    /\ currentBook' = s.currentBook
    /\ pdfDoc' = s.pdfDoc
    /\ pageFlip' = s.pageFlip
    /\ totalPages' = s.totalPages
    /\ currentPage' = s.currentPage
    /\ renderedPages' = s.renderedPages
    /\ renderQueue' = s.renderQueue
    /\ backgroundRendering' = s.backgroundRendering
    /\ pageTextCache' = s.pageTextCache
    /\ currentLayoutMode' = s.currentLayoutMode
    /\ speaking' = s.speaking
    /\ paused' = s.paused
    /\ speakIndex' = s.speakIndex
    /\ readerShown' = s.readerShown
    /\ dom' = s.dom
    /\ toast' = s.toast
    /\ innerWidth' = s.innerWidth
    /\ innerHeight' = s.innerHeight
    /\ hasOrientation' = s.hasOrientation
    /\ orientTimer' = s.orientTimer
    /\ ev' = s.ev
    /\ alive' = s.alive
    /\ synth' = s.synth
    /\ hasSpeech' = s.hasSpeech
    /\ pauseWorks' = s.pauseWorks
    /\ cancelEvent' = s.cancelEvent
    /\ loadingOverlay' = s.loadingOverlay
    /\ tasks' = s.tasks
    /\ bgTimer' = s.bgTimer
    /\ advTimers' = s.advTimers
    /\ resizeTimer' = s.resizeTimer
    /\ resizeTimeout' = s.resizeTimeout
    /\ ensured' = s.ensured
    /\ budget' = s.budget
    /\ faults' = s.faults
    /\ last' = name

\* ------------------------------------------------------------- utilities
showToast(s, message) == [s EXCEPT !.toast = message, !.ev.reported = message]

showLoadingOverlay(s) == [s EXCEPT !.loadingOverlay = TRUE]
hideLoadingOverlay(s) == [s EXCEPT !.loadingOverlay = FALSE]

\* Variant: the breakpoint itself counts as desktop.
detectLayoutMode_strict(w) == IF w < MOBILE_BREAKPOINT THEN "mobile" ELSE "desktop"

detectLayoutMode(w) == IF w <= MOBILE_BREAKPOINT THEN "mobile" ELSE "desktop"

hasLayoutChanged(s) ==
    LET newMode == detectLayoutMode(s.innerWidth)
    IN  IF newMode # s.currentLayoutMode
        THEN [s EXCEPT !.currentLayoutMode = newMode]
        ELSE s

\* await: suspend an async function on the fetches in w (all issued in this
\* step, from document d).
Suspend(s, t) ==
    IF BagCardinality(s.tasks) >= MaxTasks
    THEN [s EXCEPT !.ovf = TRUE]
    ELSE [s EXCEPT !.tasks = @ (+) SetToBag({t})]

Unsuspend(s, t) == [s EXCEPT !.tasks = @ (-) SetToBag({t})]

\* ------------------------------------------------ page-turn animator
\* The animator (St.PageFlip) is a collaborator: constructed over the page
\* elements, it shows page index idx, and a flip that has been started
\* (target) ends with a 'flip' event that carries the new index.
NewPageFlip(s) ==
    LET isMobile == s.currentLayoutMode = "mobile"
    IN  [display |-> IF isMobile THEN "single" ELSE "double",
         width |-> IF isMobile THEN s.innerWidth ELSE 800,
         height |-> IF isMobile THEN Max(400, s.innerHeight - 100) ELSE 600,
         n |-> s.totalPages, idx |-> 0, target |-> -1]

AnimFlipTo(s, i) ==
    IF s.pageFlip = <<>> THEN s
    ELSE LET pf == s.pageFlip[1]
         IN  IF pf.target = -1 /\ i >= 0 /\ i < pf.n /\ i # pf.idx
             THEN [s EXCEPT !.pageFlip = <<[pf EXCEPT !.target = i]>>]
             ELSE s

flipNext(s) == IF s.pageFlip = <<>> THEN s ELSE AnimFlipTo(s, s.pageFlip[1].idx + 1)
flipPrev(s) == IF s.pageFlip = <<>> THEN s ELSE AnimFlipTo(s, s.pageFlip[1].idx - 1)

destroyPageFlip(s) ==
    IF s.pageFlip = <<>> THEN s
    ELSE [s EXCEPT !.pageFlip = <<>>, !.alive = @ - 1]

initializePageFlip(s) ==
    [s EXCEPT !.dom = [i \in 1..s.totalPages |-> 0],
              !.pageFlip = <<NewPageFlip(s)>>,
              !.alive = @ + 1]

\* ------------------------------------------------------------ rendering
updatePageInFlipbook(s, pageNum, art) ==
    IF s.pageFlip = <<>> \/ pageNum > Len(s.dom) THEN s
    ELSE [s EXCEPT !.dom[pageNum] = art]

\* renderPage up to its first await: the pages of ps that go to the document
\* source. A page with a resident artifact returns at once; with pdfDoc null
\* the call throws inside the try and returns null at once.
ToFetch(s, ps) ==
    IF s.pdfDoc = 0 THEN {}
    ELSE {p \in ps : s.renderedPages[p] = 0}

\* Variant: a failed render stores an artifact all the same.
renderPageDone_storesOnFailure(s, pageNum, d, ok) ==
    updatePageInFlipbook([s EXCEPT !.renderedPages[pageNum] = d], pageNum, d)

\* renderPage after its awaits: the page of document d was rasterized (ok)
\* or the source failed.
renderPageDone(s, pageNum, d, ok) ==
    IF ok
    THEN updatePageInFlipbook([s EXCEPT !.renderedPages[pageNum] = d], pageNum, d)
    ELSE s

\* Variant: only the centre page, no neighbours.
Neighborhood_centerOnly(s, centerPage) == centerPage .. centerPage

Neighborhood(s, centerPage) ==
    Max(1, centerPage - 1) .. Min(s.totalPages, centerPage + 1)

\* Bookkeeping: the call ensurePagesRendered(centerPage), entered with
\* totalPages = total, has completed; the renders of the pages in failed
\* failed, and stale tells whether the reader was closed meanwhile.
Ensured(s, centerPage, total, failed, stale) ==
    [s EXCEPT !.ensured = <<[center |-> centerPage, total |-> total,
                             failed |-> failed, stale |-> stale]>>]

\* Variant: while the background loop runs, the neighbourhood is left to it.
ensurePagesRendered_unlessBackground(s, centerPage, kind) ==
    LET missing == {p \in Neighborhood(s, centerPage) : s.renderedPages[p] = 0}
        w == IF s.backgroundRendering THEN {} ELSE ToFetch(s, Neighborhood(s, centerPage))
    IN  IF w = {} THEN Ensured(s, centerPage, s.totalPages, missing, FALSE)
        ELSE Suspend(s, Task(kind, centerPage, s.totalPages, s.pdfDoc, w))

\* ensurePagesRendered up to its await; kind names the caller that resumes.
\* The pages it has to render are the missing ones; with pdfDoc null every
\* one of them fails at once.
ensurePagesRendered(s, centerPage, kind) ==
    LET missing == {p \in Neighborhood(s, centerPage) : s.renderedPages[p] = 0}
        w == ToFetch(s, Neighborhood(s, centerPage))
    IN  IF w = {} THEN Ensured(s, centerPage, s.totalPages, missing, FALSE)
        ELSE Suspend(s, Task(kind, centerPage, s.totalPages, s.pdfDoc, w))

\* Variant: no timer for the next batch.
afterBatch_noTimer(s) ==
    IF Len(s.renderQueue) > 0
    THEN s
    ELSE [s EXCEPT !.backgroundRendering = FALSE]

afterBatch(s) ==
    IF Len(s.renderQueue) > 0
    THEN [s EXCEPT !.bgTimer = TRUE]
    ELSE [s EXCEPT !.backgroundRendering = FALSE]

\* Variant: a batch takes the whole queue.
renderNextBatch_wholeQueue(s) ==
    IF Len(s.renderQueue) = 0
    THEN [s EXCEPT !.backgroundRendering = FALSE]
    ELSE LET k == Len(s.renderQueue)
             batch == SubSeq(s.renderQueue, 1, k)
             s1 == [s EXCEPT !.renderQueue = SubSeq(@, k + 1, Len(@))]
             w == ToFetch(s1, {batch[i] : i \in 1..k})
         IN  IF w = {} THEN afterBatch(s1)
             ELSE Suspend(s1, Task("bg", 0, 0, s1.pdfDoc, w))

renderNextBatch(s) ==
    IF Len(s.renderQueue) = 0
    THEN [s EXCEPT !.backgroundRendering = FALSE]
    ELSE LET k == Min(BATCH_SIZE, Len(s.renderQueue))
             batch == SubSeq(s.renderQueue, 1, k)
             s1 == [s EXCEPT !.renderQueue = SubSeq(@, k + 1, Len(@))]
             w == ToFetch(s1, {batch[i] : i \in 1..k})
         IN  IF w = {} THEN afterBatch(s1)
             ELSE Suspend(s1, Task("bg", 0, 0, s1.pdfDoc, w))

startBackgroundRendering(s) ==
    IF s.backgroundRendering THEN s
    ELSE LET rest == [i \in 1..Max(0, s.totalPages - PRELOAD_PAGES) |-> PRELOAD_PAGES + i]
         IN  renderNextBatch([s EXCEPT !.backgroundRendering = TRUE,
                                       !.renderQueue = @ \o rest])

\* preloadInitialPages from loop index i on, initialPages having been read
\* when the function was entered; openBook, its only caller, then hides the
\* loading overlay.
RECURSIVE preloadFrom(_, _, _)
preloadFrom(s, i, initialPages) ==
    IF i > initialPages THEN hideLoadingOverlay(startBackgroundRendering(s))
    ELSE IF ToFetch(s, {i}) = {} THEN preloadFrom(s, i + 1, initialPages)
    ELSE Suspend(s, Task("preload", i, initialPages, s.pdfDoc, {i}))

preloadInitialPages(s) == preloadFrom(s, 1, Min(s.totalPages, PRELOAD_PAGES))

\* -------------------------------------------------------- speech engine
\* speechSynthesis is a collaborator: it holds the utterance being spoken
\* (with the page, start offset and document of its text, and the last
\* boundary it reported), its paused flag, and the utterances that cancel()
\* removed and that are still to be notified of it. Engines differ in what
\* they fire on a cancelled utterance (cancelEvent); the engine queues that
\* event when cancel() is called, so it is the next task to run (Commit lets
\* no other handler run before it).
Utterance(pageNum, startIndex, d) ==
    [page |-> pageNum, start |-> startIndex, doc |-> d, pos |-> -1]

synthCancel(s) ==
    IF s.synth.cur = <<>> THEN s
    ELSE IF s.cancelEvent = "none" THEN [s EXCEPT !.synth.cur = <<>>]
    ELSE [s EXCEPT !.synth.cur = <<>>,
                   !.synth.dying = @ \cup {s.synth.cur[1].page}]

synthSpeak(s, u) == [s EXCEPT !.synth.cur = <<u>>]

synthPause(s) == IF s.pauseWorks THEN [s EXCEPT !.synth.paused = TRUE] ELSE s

synthResume(s) == [s EXCEPT !.synth.paused = FALSE]

\* ------------------------------------------------------------ narration
ensureSpeech(s) == s.hasSpeech

onboundary(s, startIndex, charIndex) ==
    [s EXCEPT !.speakIndex = startIndex + charIndex]

scheduleNext(s, pageNum) ==
    IF pageNum < s.totalPages /\ s.pageFlip # <<>>
    THEN [flipNext(s) EXCEPT !.advTimers = @ \cup {pageNum + 1}]
    ELSE s

onend(s, pageNum) ==
    IF s.paused THEN s
    ELSE scheduleNext([s EXCEPT !.speaking = FALSE, !.paused = FALSE], pageNum)

\* Variant: an error moves on to the next page like the end of an utterance.
onerror_advances(s) ==
    LET s1 == showToast([s EXCEPT !.speaking = FALSE, !.paused = FALSE], "TTS error occurred")
    IN  IF s1.currentPage < s1.totalPages /\ s1.pageFlip # <<>>
        THEN [s1 EXCEPT !.advTimers = @ \cup {s1.currentPage + 1}]
        ELSE s1

\* Variant: an error leaves the paused flag as it is.
onerror_keepsPaused(s) ==
    showToast([s EXCEPT !.speaking = FALSE], "TTS error occurred")

onerror(s) ==
    showToast([s EXCEPT !.speaking = FALSE, !.paused = FALSE], "TTS error occurred")

\* startTTSForPage from the point where extractPageText has returned a text
\* of length len taken from document d.
speakText(s, pageNum, startIndex, d, len) ==
    IF len = 0 THEN showToast(s, "No text found on this page")
    ELSE IF startIndex >= len THEN scheduleNext(s, pageNum)
    ELSE synthSpeak([synthCancel(s) EXCEPT !.speaking = TRUE, !.paused = FALSE],
                    Utterance(pageNum, startIndex, d))

\* startTTSForPage up to the await of extractPageText: a cached text is
\* returned at once, with pdfDoc null the extraction throws and yields ''.
startTTSForPage(s, pageNum, startIndex) ==
    IF ~ensureSpeech(s) THEN showToast(s, "Speech Synthesis not supported in this browser")
    ELSE IF pageNum \in Pages /\ s.pageTextCache[pageNum] # 0
    THEN speakText(s, pageNum, startIndex, s.pageTextCache[pageNum],
                   TextLen(s.pageTextCache[pageNum], pageNum))
    ELSE IF s.pdfDoc = 0 \/ pageNum \notin Pages
    THEN speakText(s, pageNum, startIndex, 0, 0)
    ELSE Suspend(s, Task("tts", pageNum, startIndex, s.pdfDoc, {pageNum}))

\* extractPageText after its awaits.
extractPageTextDone(s, pageNum, d, ok) ==
    IF ok THEN [s EXCEPT !.pageTextCache[pageNum] = d] ELSE s

\* Variant: the fallback of resume restarts the page from offset 0.
toggleTTS_restart(s) ==
    IF ~ensureSpeech(s) THEN showToast(s, "Speech Synthesis not supported in this browser")
    ELSE IF ~s.speaking THEN startTTSForPage(s, s.currentPage, s.speakIndex)
    ELSE IF ~s.paused THEN [synthPause(s) EXCEPT !.paused = TRUE]
    ELSE IF s.synth.paused THEN [synthResume(s) EXCEPT !.paused = FALSE]
    ELSE LET s1 == startTTSForPage(s, s.currentPage, 0)
         IN  [s1 EXCEPT !.paused = FALSE]

toggleTTS(s) ==
    IF ~ensureSpeech(s) THEN showToast(s, "Speech Synthesis not supported in this browser")
    ELSE IF ~s.speaking THEN startTTSForPage(s, s.currentPage, s.speakIndex)
    ELSE IF ~s.paused THEN [synthPause(s) EXCEPT !.paused = TRUE]
    ELSE IF s.synth.paused THEN [synthResume(s) EXCEPT !.paused = FALSE]
    ELSE LET s1 == startTTSForPage(s, s.currentPage, s.speakIndex)
         IN  [s1 EXCEPT !.paused = FALSE]

\* Variant: stop keeps the offset.
stopTTS_keepsOffset(s) ==
    IF ~s.hasSpeech THEN s
    ELSE [synthCancel(s) EXCEPT !.speaking = FALSE, !.paused = FALSE]

stopTTS(s) ==
    IF ~s.hasSpeech THEN s
    ELSE [synthCancel(s) EXCEPT !.speaking = FALSE, !.paused = FALSE, !.speakIndex = 0]

\* -------------------------------------------------------------- session
EmptyMap == [p \in Pages |-> 0]

\* Bookkeeping: every function suspended now belongs to a closed session.
RECURSIVE BagOfSeq(_)
BagOfSeq(q) == IF q = <<>> THEN EmptyBag ELSE SetToBag({Head(q)}) (+) BagOfSeq(Tail(q))
RECURSIVE SeqOfBag(_)
SeqOfBag(b) ==
    IF b = EmptyBag THEN <<>>
    ELSE LET t == CHOOSE x \in BagToSet(b) : TRUE
         IN  <<t>> \o SeqOfBag(b (-) SetToBag({t}))
MarkStale(b) ==
    LET q == SeqOfBag(b)
    IN  BagOfSeq([i \in 1..Len(q) |-> [q[i] EXCEPT !.stale = TRUE]])

\* Variant: closing keeps the extracted texts.
hideReader_keepsText(s) ==
    LET s0 == [s EXCEPT !.tasks = MarkStale(@)]
        s1 == stopTTS(destroyPageFlip([s0 EXCEPT !.readerShown = FALSE]))
    IN  [s1 EXCEPT !.currentBook = 0, !.pdfDoc = 0, !.renderedPages = EmptyMap,
                   !.renderQueue = <<>>,
                   !.currentPage = 1, !.speaking = FALSE, !.paused = FALSE,
                   !.speakIndex = 0]

hideReader(s) ==
    LET s0 == [s EXCEPT !.tasks = MarkStale(@)]
        s1 == stopTTS(destroyPageFlip([s0 EXCEPT !.readerShown = FALSE]))
    IN  [s1 EXCEPT !.currentBook = 0, !.pdfDoc = 0, !.renderedPages = EmptyMap,
                   !.renderQueue = <<>>, !.pageTextCache = EmptyMap,
                   !.currentPage = 1, !.speaking = FALSE, !.paused = FALSE,
                   !.speakIndex = 0]

\* openBook up to the await of getDocument.
openBook(s, book) ==
    Suspend(showLoadingOverlay([s EXCEPT !.currentBook = book, !.readerShown = TRUE]),
            Task("open", 0, 0, book, {}))

\* openBook after getDocument has resolved with the document of book d.
openBookLoaded(s, d) ==
    preloadInitialPages(initializePageFlip([s EXCEPT !.pdfDoc = d,
                                                     !.totalPages = NumPages(d)]))

\* openBook's catch block.
openBookFailed(s) == hideLoadingOverlay(showToast(s, "Failed to open book"))

\* the animator's 'flip' handler, after ensurePagesRendered has resolved
flipContinue(s) ==
    IF s.speaking /\ ~s.paused THEN startTTSForPage(s, s.currentPage, 0) ELSE s

flipHandler(s, leftIndex) ==
    LET s1 == [s EXCEPT !.currentPage = Min(s.totalPages, leftIndex + 1)]
        s2 == ensurePagesRendered(s1, s1.currentPage, "flip")
    IN  IF s2.ensured # <<>> THEN flipContinue(s2) ELSE s2

\* Variant: the callback creates the new animator without destroying the
\* one in use.
reinitCallback_noDestroy(s) ==
    LET s1 == initializePageFlip(hasLayoutChanged(s))
    IN  IF s1.currentPage > 0
        THEN ensurePagesRendered(s1, s1.currentPage, "resize")
        ELSE s1

\* the callback of window.resizeTimeout
reinitCallback(s) ==
    LET s1 == initializePageFlip(destroyPageFlip(hasLayoutChanged(s)))
    IN  IF s1.currentPage > 0
        THEN ensurePagesRendered(s1, s1.currentPage, "resize")
        ELSE s1

reinitializeFlipbookOnResize(s) ==
    IF s.pageFlip # <<>> /\ s.currentBook # 0
    THEN [s EXCEPT !.resizeTimeout = TRUE]
    ELSE s

\* the callback of the orientationchange listener's timer; flipping is what
\* pageFlip.isFlipping() answers (a call that throws ends the callback like
\* the answer true)
orientationCallback(s, flipping) ==
    LET s1 == hasLayoutChanged(s)
    IN  IF s1.currentLayoutMode # s.currentLayoutMode /\ ~flipping
        THEN reinitializeFlipbookOnResize(s1)
        ELSE s1

\* Variant: the slider sets the current page itself.
pageRangeInput_setsPage(s, targetPage) ==
    IF s.pageFlip # <<>> /\ targetPage >= 1 /\ targetPage <= s.totalPages
    THEN [AnimFlipTo(s, Max(0, targetPage - 1)) EXCEPT !.currentPage = targetPage]
    ELSE s

\* the 'input' listener of the page slider
pageRangeInput(s, targetPage) ==
    IF s.pageFlip # <<>> /\ targetPage >= 1 /\ targetPage <= s.totalPages
    THEN AnimFlipTo(s, Max(0, targetPage - 1))
    ELSE s

\* what runs when the last fetch a suspended function awaits has settled
resume(s, t) ==
    CASE t.kind = "flip" -> flipContinue(Ensured(s, t.page, t.arg, t.failed, t.stale))
      [] t.kind = "resize" -> Ensured(s, t.page, t.arg, t.failed, t.stale)
      [] t.kind = "preload" -> preloadFrom(s, t.page + 1, t.arg)
      [] t.kind = "bg" -> afterBatch(s)
      [] OTHER -> s

\* ---------------------------------------------------------------- actions
\* the state in which a user input or a viewport change is handled
In == [St EXCEPT !.budget = @ - 1]

\* the state in which a failure of a collaborator is handled
Fault == [St EXCEPT !.faults = @ - 1]

InitWith(inputs, failures) ==
    /\ currentBook = 0 /\ pdfDoc = 0 /\ pageFlip = <<>>
    /\ totalPages = 0 /\ currentPage = 1
    /\ renderedPages = EmptyMap /\ renderQueue = <<>>
    /\ backgroundRendering = FALSE /\ pageTextCache = EmptyMap
    /\ innerWidth \in ViewportWidths /\ innerHeight \in ViewportHeights
    /\ hasOrientation \in BOOLEAN /\ orientTimer = FALSE /\ ev = NoEvent
    /\ currentLayoutMode = detectLayoutMode(innerWidth)
    /\ speaking = FALSE /\ paused = FALSE /\ speakIndex = 0
    /\ readerShown = FALSE /\ dom = <<>> /\ toast = ""
    /\ alive = 0
    /\ synth = [cur |-> <<>>, paused |-> FALSE, dying |-> {}]
    /\ hasSpeech \in BOOLEAN
    /\ pauseWorks \in {b \in BOOLEAN : b => hasSpeech}
    /\ cancelEvent \in {e \in {"none", "end", "error"} : e # "none" => hasSpeech}
    /\ loadingOverlay = FALSE
    /\ tasks = EmptyBag /\ bgTimer = FALSE /\ advTimers = {}
    /\ resizeTimer = FALSE /\ resizeTimeout = FALSE
    /\ ensured = <<>>
    /\ budget = inputs /\ faults = failures /\ last = "init"

Init == InitWith(MaxInputs, MaxFaults)

\* a book card of the library is clicked (the library is visible)
OpenBook(b) ==
    /\ ~readerShown /\ budget > 0
    /\ Commit(openBook(In, b), "openBook")

\* getDocument settles
GetDocumentDone ==
    \E t \in BagToSet(tasks) : \E ok \in BOOLEAN :
        /\ t.kind = "open"
        /\ ~ok => faults > 0
        /\ IF ok THEN Commit(openBookLoaded(Unsuspend(St, t), t.doc),
                             IF t.stale THEN "openBookLoaded.stale" ELSE "openBookLoaded")
                 ELSE Commit(openBookFailed(Unsuspend(Fault, t)),
                             IF t.stale THEN "openBookFailed.stale" ELSE "openBookFailed")

\* the render of page q that suspended function t awaits settles
RenderDone ==
    \E t \in BagToSet(tasks) : \E q \in t.waiting : \E ok \in BOOLEAN :
        /\ t.kind \in {"flip", "resize", "preload", "bg"}
        /\ ok => q <= NumPages(t.doc)
        /\ ~ok => faults > 0 \/ q > NumPages(t.doc)
        /\ LET s0 == IF ok \/ q > NumPages(t.doc) THEN St ELSE Fault
               s1 == [renderPageDone(Unsuspend(s0, t), q, t.doc, ok)
                        EXCEPT !.ev.rendered =
                            <<[page |-> q, doc |-> t.doc, ok |-> ok, kind |-> t.kind,
                               rest |-> t.waiting \ {q}, stale |-> t.stale]>>]
               t2 == [t EXCEPT !.waiting = @ \ {q},
                               !.failed = IF ok THEN @ ELSE @ \cup {q}]
               name == IF t.stale THEN "renderPage.stale" ELSE "renderPage"
           IN  IF t2.waiting # {}
               THEN Commit([s1 EXCEPT !.tasks = @ (+) SetToBag({t2})], name)
               ELSE Commit(resume(s1, t2), name)

\* the text extraction a startTTSForPage call awaits settles
TextDone ==
    \E t \in BagToSet(tasks) : \E ok \in BOOLEAN :
        /\ t.kind = "tts"
        /\ ok => t.page <= NumPages(t.doc)
        /\ ~ok => faults > 0 \/ t.page > NumPages(t.doc)
        /\ LET s0 == IF ok \/ t.page > NumPages(t.doc) THEN St ELSE Fault
               s1 == extractPageTextDone(Unsuspend(s0, t), t.page, t.doc, ok)
               len == IF ok THEN TextLen(t.doc, t.page) ELSE 0
           IN  Commit(speakText(s1, t.page, t.arg, t.doc, len),
                      IF t.stale THEN "startTTSForPage.stale" ELSE "startTTSForPage")

BgTimerFire ==
    /\ bgTimer
    /\ Commit(renderNextBatch([St EXCEPT !.bgTimer = FALSE]), "renderNextBatch")

\* back button or Escape
HideReader ==
    /\ readerShown /\ budget > 0
    /\ Commit(hideReader(In), "hideReader")

\* next / previous buttons, arrow keys, swipes
UserFlipNext ==
    /\ readerShown /\ pageFlip # <<>> /\ budget > 0
    /\ flipNext(St) # St
    /\ Commit(flipNext(In), "next")

UserFlipPrev ==
    /\ readerShown /\ pageFlip # <<>> /\ budget > 0
    /\ flipPrev(St) # St
    /\ Commit(flipPrev(In), "previous")

\* the animator finishes a flip and emits 'flip'
FlipEvent ==
    /\ pageFlip # <<>> /\ pageFlip[1].target # -1
    /\ LET i == pageFlip[1].target
           s1 == [St EXCEPT !.pageFlip = <<[pageFlip[1] EXCEPT !.idx = i, !.target = -1]>>]
       IN  Commit(flipHandler(s1, i), "flip")

Resize ==
    /\ budget > 0
    /\ \E w \in Widths \ {innerWidth} :
        Commit([In EXCEPT !.innerWidth = w, !.resizeTimer = TRUE], "resize")

\* the page slider is moved to n
UserGoToPage ==
    /\ readerShown /\ budget > 0
    /\ \E n \in 0..(MaxPages + 1) :
        Commit(pageRangeInput([In EXCEPT !.ev.request = n], n), "goToPage")

\* the device is rotated
OrientationChange ==
    /\ hasOrientation /\ budget > 0
    /\ \E w \in Widths :
        Commit([In EXCEPT !.innerWidth = w, !.orientTimer = TRUE], "orientationchange")

OrientTimerFire ==
    /\ orientTimer
    /\ \E flipping \in BOOLEAN :
        /\ pageFlip = <<>> => ~flipping
        /\ Commit(orientationCallback([St EXCEPT !.orientTimer = FALSE], flipping),
                  "orientationTimer")

ResizeTimerFire ==
    /\ resizeTimer
    /\ Commit(reinitializeFlipbookOnResize([St EXCEPT !.resizeTimer = FALSE]), "resizeTimer")

ReinitTimerFire ==
    /\ resizeTimeout
    /\ Commit(reinitCallback([St EXCEPT !.resizeTimeout = FALSE]), "reinit")

ToggleTTS ==
    /\ readerShown /\ budget > 0
    /\ Commit(toggleTTS(In), "toggleTTS")

StopTTS ==
    /\ readerShown /\ budget > 0
    /\ Commit(stopTTS(In), "stopTTS")

\* the engine reports a boundary of the utterance it is speaking
Boundary ==
    /\ synth.cur # <<>> /\ ~synth.paused
    /\ LET u == synth.cur[1]
       IN  \E w \in WordStarts :
             /\ w >= u.start /\ w - u.start > u.pos
             /\ w < TextLen(u.doc, u.page)
             /\ Commit(onboundary([St EXCEPT !.synth.cur = <<[u EXCEPT !.pos = w - u.start]>>],
                                  u.start, w - u.start), "onboundary")

\* the engine has spoken the utterance to its end
UtteranceEnd ==
    /\ synth.cur # <<>> /\ ~synth.paused
    /\ Commit(onend([St EXCEPT !.synth.cur = <<>>], synth.cur[1].page), "onend")

\* the engine fails on the utterance
UtteranceError ==
    /\ synth.cur # <<>> /\ faults > 0
    /\ Commit(onerror([Fault EXCEPT !.synth.cur = <<>>]), "onerror")

\* the engine notifies an utterance that cancel() removed: with 'end' ...
CancelledEnd ==
    /\ cancelEvent = "end"
    /\ \E p \in synth.dying :
        Commit(onend([St EXCEPT !.synth.dying = @ \ {p}], p), "onendCancelled")

\* ... or with 'error'
CancelledError ==
    /\ cancelEvent = "error"
    /\ \E p \in synth.dying :
        Commit(onerror([St EXCEPT !.synth.dying = @ \ {p}]), "onerrorCancelled")

\* the settle-delay timer of narration fires
AdvTimerFire ==
    \E p \in advTimers :
        Commit(startTTSForPage([St EXCEPT !.advTimers = @ \ {p}], p, 0), "advTimer")

Next ==
    \/ (\E b \in Books : OpenBook(b)) \/ GetDocumentDone \/ RenderDone \/ TextDone \/ BgTimerFire
    \/ HideReader \/ UserFlipNext \/ UserFlipPrev \/ FlipEvent
    \/ Resize \/ ResizeTimerFire \/ ReinitTimerFire
    \/ UserGoToPage \/ OrientationChange \/ OrientTimerFire
    \/ ToggleTTS \/ StopTTS \/ Boundary \/ UtteranceEnd \/ UtteranceError
    \/ CancelledEnd \/ CancelledError \/ AdvTimerFire

Spec == Init /\ [][Next]_vars

\* ------------------------------------------------- focused specifications
\* The viewport of the specifications that are not about the layout: one of
\* the two widths, a tall window, no orientationchange event.
Desk == innerWidth \in Widths /\ innerHeight = 800 /\ ~hasOrientation

\* The loading overlay is gone: the user can reach the controls.
Ready == ~loadingOverlay

\* Rendering and the session, without narration: both books and resize.
InitRender == InitWith(MaxInputs, MaxFaults) /\ hasSpeech = FALSE /\ Desk

NextRender ==
    \/ (\E b \in Books : OpenBook(b)) \/ GetDocumentDone \/ RenderDone \/ BgTimerFire
    \/ HideReader \/ UserFlipNext \/ UserFlipPrev \/ FlipEvent
    \/ Resize \/ ResizeTimerFire \/ ReinitTimerFire

SpecRender == InitRender /\ [][NextRender]_vars

\* The neighbourhood of a page: book 3 (a single background batch, so no
\* batch timer), with resize and closing.
NextNeighbourhood ==
    \/ OpenBook(3) \/ GetDocumentDone \/ RenderDone
    \/ HideReader \/ UserFlipNext \/ UserFlipPrev \/ FlipEvent
    \/ Resize \/ ResizeTimerFire \/ ReinitTimerFire

SpecNeighbourhood == InitRender /\ [][NextNeighbourhood]_vars

\* The layout: the two-page book under viewport changes, on a device with
\* or without the orientationchange event.
InitLayout ==
    /\ InitWith(MaxInputs, MaxFaults) /\ hasSpeech = FALSE
    /\ innerWidth \in Widths /\ innerHeight = 800

NextLayout ==
    \/ OpenBook(2) \/ GetDocumentDone \/ RenderDone
    \/ HideReader \/ UserFlipNext \/ UserFlipPrev \/ FlipEvent
    \/ Resize \/ ResizeTimerFire \/ ReinitTimerFire
    \/ OrientationChange \/ OrientTimerFire

SpecLayout == InitLayout /\ [][NextLayout]_vars

\* The classification of the viewport: the two-page book opened and closed
\* in every viewport a session may start with, which then stays as it is.
InitViewport == InitWith(MaxInputs, MaxFaults) /\ hasSpeech = FALSE /\ ~hasOrientation

NextViewport == OpenBook(2) \/ GetDocumentDone \/ RenderDone \/ HideReader

SpecViewport == InitViewport /\ [][NextViewport]_vars

\* Navigation: book 3 with the buttons and the page slider.
NextNavigation ==
    \/ OpenBook(3) \/ GetDocumentDone \/ RenderDone
    \/ HideReader \/ UserFlipNext \/ UserFlipPrev \/ UserGoToPage \/ FlipEvent

SpecNavigation == InitRender /\ [][NextNavigation]_vars

\* The boundaries: book 3 on a desktop viewport with navigation and resize,
\* a document source that does not fail, and one more user input than Spec.
InitBoundaries ==
    /\ InitWith(MaxInputs + 1, 0) /\ hasSpeech = FALSE /\ Desk /\ innerWidth = 1024

NextBoundaries ==
    \/ OpenBook(3) \/ GetDocumentDone \/ RenderDone
    \/ (Ready /\ UserFlipNext) \/ (Ready /\ UserFlipPrev) \/ (Ready /\ UserGoToPage)
    \/ FlipEvent \/ (Ready /\ Resize) \/ ResizeTimerFire \/ ReinitTimerFire

SpecBoundaries == InitBoundaries /\ [][NextBoundaries]_vars

\* The whole reader on the two-page book: navigation, viewport changes and
\* narration with an engine that honours pause and notifies no cancelled
\* utterance; the reader can be closed at any time, the other inputs come
\* once the loading overlay is gone.
InitReader ==
    /\ InitWith(MaxInputs, MaxFaults) /\ hasSpeech = TRUE /\ Desk
    /\ pauseWorks = TRUE /\ cancelEvent = "none"

NextReader ==
    \/ OpenBook(2) \/ GetDocumentDone \/ RenderDone \/ TextDone
    \/ HideReader \/ (Ready /\ UserFlipNext) \/ (Ready /\ UserFlipPrev)
    \/ (Ready /\ UserGoToPage) \/ FlipEvent
    \/ (Ready /\ Resize) \/ ResizeTimerFire \/ ReinitTimerFire
    \/ (Ready /\ ToggleTTS) \/ (Ready /\ StopTTS) \/ Boundary \/ UtteranceEnd \/ UtteranceError
    \/ AdvTimerFire

SpecReader == InitReader /\ [][NextReader]_vars

\* Background batches: the long book, whose pages beyond the preload take
\* two batches, with closing at any time and page turns once the loading
\* overlay is gone.
NextBatches ==
    \/ OpenBook(1) \/ GetDocumentDone \/ RenderDone \/ BgTimerFire
    \/ HideReader \/ (Ready /\ UserFlipNext) \/ (Ready /\ UserFlipPrev) \/ FlipEvent

SpecBatches == InitRender /\ [][NextBatches]_vars

\* The opening of a book with a document source that does not fail.
InitOpening == InitWith(MaxInputs, 0) /\ hasSpeech = FALSE /\ Desk

NextOpening ==
    \/ (\E b \in Books : OpenBook(b)) \/ GetDocumentDone \/ RenderDone \/ BgTimerFire
    \/ HideReader

SpecOpening == InitOpening /\ [][NextOpening]_vars

\* Narration of the two-page book (which has no page left for a second
\* background batch) on a desktop viewport: the user acts only
\* once the loading overlay is gone, and may act once more than in Spec.
InitNarration ==
    InitWith(MaxInputs + 1, MaxFaults) /\ hasSpeech = TRUE /\ innerWidth = 1024 /\ Desk

NextNarration ==
    \/ OpenBook(2) \/ GetDocumentDone \/ RenderDone \/ TextDone
    \/ (Ready /\ HideReader) \/ (Ready /\ UserFlipNext) \/ (Ready /\ UserFlipPrev)
    \/ FlipEvent
    \/ (Ready /\ ToggleTTS) \/ (Ready /\ StopTTS) \/ Boundary \/ UtteranceEnd
    \/ UtteranceError \/ CancelledEnd \/ CancelledError \/ AdvTimerFire

SpecNarration == InitNarration /\ [][NextNarration]_vars

\* The opening of a book when every call of the document source succeeds
\* and settles and every timer fires: promises settle and timers fire as
\* long as the page lives.
LiveOpening ==
    /\ SpecOpening
    /\ WF_vars(GetDocumentDone) /\ WF_vars(RenderDone) /\ WF_vars(BgTimerFire)

\* Pause and resume across a page turn: narration of book 3, whose second
\* page has no text, in an engine that does not honour pause and notifies no
\* cancelled utterance; nothing fails, the reader stays open, and the user
\* may act twice more than in Spec.
InitResume ==
    /\ InitWith(MaxInputs + 2, 0) /\ hasSpeech = TRUE /\ Desk /\ innerWidth = 1024
    /\ pauseWorks = FALSE /\ cancelEvent = "none"

NextResume ==
    \/ OpenBook(3) \/ GetDocumentDone \/ RenderDone \/ TextDone
    \/ (Ready /\ UserFlipNext) \/ FlipEvent \/ (Ready /\ ToggleTTS)
    \/ Boundary \/ UtteranceEnd \/ AdvTimerFire

SpecResume == InitResume /\ [][NextResume]_vars

\* Page turns before narration: book 3 is opened and its pages are turned
\* while narration is idle; play is the last thing the user does, once no
\* page turn is under way, and the utterance does not end. Every page-turn
\* notification therefore arrives while narration is idle.
InitQuietFlip ==
    /\ InitWith(MaxInputs + 1, 0) /\ hasSpeech = TRUE /\ Desk
    /\ cancelEvent = "none"

NextQuietFlip ==
    \/ OpenBook(3) \/ GetDocumentDone \/ RenderDone \/ TextDone
    \/ (Ready /\ budget > 1 /\ UserFlipNext) \/ FlipEvent
    \/ (Ready /\ budget = 1 /\ pageFlip # <<>> /\ pageFlip[1].target = -1 /\ ToggleTTS)
    \/ Boundary

SpecQuietFlip == InitQuietFlip /\ [][NextQuietFlip]_vars

\* Closing and reopening: books 2 and 3 opened, closed and opened again with
\* page turns once the loading overlay is gone, a document source that does
\* not fail, and two more user inputs than in Spec.
InitReopen ==
    /\ InitWith(MaxInputs + 2, 0) /\ hasSpeech = FALSE /\ Desk /\ innerWidth = 1024

NextReopen ==
    \/ OpenBook(2) \/ OpenBook(3) \/ GetDocumentDone \/ RenderDone
    \/ HideReader \/ (Ready /\ UserFlipNext) \/ FlipEvent

SpecReopen == InitReopen /\ [][NextReopen]_vars

\* A browser without speech synthesis: the two-page book with the narration
\* buttons and a document source that does not fail.
InitNoSpeech ==
    InitWith(MaxInputs, 0) /\ hasSpeech = FALSE /\ Desk

NextNoSpeech ==
    \/ OpenBook(2) \/ GetDocumentDone \/ RenderDone
    \/ HideReader \/ (Ready /\ UserFlipNext) \/ (Ready /\ UserFlipPrev) \/ FlipEvent
    \/ (Ready /\ ToggleTTS) \/ (Ready /\ StopTTS)

SpecNoSpeech == InitNoSpeech /\ [][NextNoSpeech]_vars

\* Stop as the last thing the user does: narration of the two-page book
\* with a document source and an engine that do not fail and an engine that
\* notifies no cancelled utterance; stop is the user's last input, so that
\* budget = 0 tells that narration was stopped and not started again.
InitStop ==
    /\ InitWith(MaxInputs, 0) /\ hasSpeech = TRUE /\ Desk /\ innerWidth = 1024
    /\ cancelEvent = "none"

NextStop ==
    \/ (budget > 1 /\ OpenBook(2)) \/ GetDocumentDone \/ RenderDone \/ TextDone
    \/ (Ready /\ budget > 1 /\ UserFlipNext) \/ FlipEvent
    \/ (Ready /\ budget > 1 /\ ToggleTTS) \/ (Ready /\ budget = 1 /\ StopTTS)
    \/ Boundary \/ UtteranceEnd \/ AdvTimerFire

SpecStop == InitStop /\ [][NextStop]_vars

\* Narration of book 3, whose second page has no text, with a document
\* source and a speech engine that do not fail.
InitSilentPage ==
    InitWith(MaxInputs, 0) /\ hasSpeech = TRUE /\ innerWidth = 1024 /\ Desk

NextSilentPage ==
    \/ OpenBook(3) \/ GetDocumentDone \/ RenderDone \/ TextDone
    \/ (Ready /\ UserFlipNext) \/ (Ready /\ UserFlipPrev) \/ FlipEvent
    \/ (Ready /\ ToggleTTS) \/ (Ready /\ StopTTS) \/ Boundary \/ UtteranceEnd
    \/ CancelledEnd \/ CancelledError \/ AdvTimerFire

SpecSilentPage == InitSilentPage /\ [][NextSilentPage]_vars

\* ------------------------------------------------------------ properties
\* The render fetches of page q of document d that are outstanding and were
\* issued in the session that is still open.
InFlight(q, d) ==
    LET ts == {t \in BagToSet(tasks) :
                 /\ t.kind \in {"flip", "resize", "preload", "bg"}
                 /\ ~t.stale /\ t.doc = d /\ q \in t.waiting}
        RECURSIVE Sum(_)
        Sum(S) == IF S = {} THEN 0
                  ELSE LET x == CHOOSE y \in S : TRUE
                       IN  CopiesIn(x, tasks) + Sum(S \ {x})
    IN  Sum(ts)

\* C1: a page render or a text extraction that completes after the reader
\* it was issued in was closed changes nothing: the artifact cache and the
\* text cache gain no entry and no page element changes.
C1_StaleCompletionChangesNothing ==
    [][last' \in {"renderPage.stale", "startTTSForPage.stale"}
         => /\ renderedPages' = renderedPages
            /\ pageTextCache' = pageTextCache
            /\ dom' = dom]_vars

\* C2: at every moment at most one animator instance is alive.
C2_AtMostOneAnimator == alive <= 1

C4_AtMostOneFetchPerPage ==
    \A q \in Pages : \A d \in Books : InFlight(q, d) <= 1

\* C5: whenever narration is speaking and nothing is in transit (no flip in
\* progress, no text extraction or settle delay pending), the page being
\* spoken is the current page.
C5_SpokenPageIsCurrentPage ==
    (/\ speaking /\ ~paused /\ synth.cur # <<>> /\ synth.dying = {}
     /\ pageFlip # <<>> /\ pageFlip[1].target = -1
     /\ advTimers = {}
     /\ \A t \in BagToSet(tasks) : t.kind \notin {"flip", "tts"})
    => synth.cur[1].page = currentPage

\* C6: after stopTTS narration is idle (not speaking, not paused, nothing
\* in the engine) and speakIndex is 0.
C6_StopLeavesIdleAtZero ==
    last = "stopTTS" =>
        /\ ~speaking /\ ~paused /\ speakIndex = 0 /\ synth.cur = <<>>

\* C6 (witness): stopTTS has cancelled an utterance that was paused in the
\* engine.
C6_Witness ==
    /\ last = "stopTTS" /\ synth.paused /\ synth.dying # {}

\* C7: when narration is paused after the engine reported a boundary of
\* the utterance, resume continues from that boundary: either the engine
\* resumes the same utterance, or narration of the current page is started
\* at start offset + last reported charIndex (a new utterance from that
\* offset, or the extraction of the page's text for it).
C7_ResumeFromLastBoundary ==
    [][(/\ last' = "toggleTTS" /\ speaking /\ paused
        /\ synth.cur # <<>> /\ synth.cur[1].pos >= 0)
       => /\ speaking' /\ ~paused'
          /\ IF synth.paused
             THEN synth'.cur = synth.cur /\ ~synth'.paused
             ELSE LET off == synth.cur[1].start + synth.cur[1].pos
                  IN  \/ /\ synth'.cur # <<>>
                         /\ synth'.cur[1].page = currentPage
                         /\ synth'.cur[1].start = off
                         /\ synth'.cur[1].pos = -1
                      \/ \E t \in BagToSet(tasks') :
                            /\ t.kind = "tts" /\ t.page = currentPage /\ t.arg = off
                            /\ CopiesIn(t, tasks') > CopiesIn(t, tasks)]_vars

\* C7 (witness): open, play, boundaries up to offset 12, pause on an engine
\* that does not pause, resume: a new utterance of page 1 starts at 12.
C7_Witness ==
    /\ last = "toggleTTS" /\ ~pauseWorks /\ cancelEvent = "none"
    /\ budget = MaxInputs + 1 - 4 /\ faults = MaxFaults
    /\ speaking /\ ~paused /\ currentPage = 1 /\ advTimers = {}
    /\ pageFlip # <<>> /\ pageFlip[1].idx = 0 /\ pageFlip[1].target = -1
    /\ synth.cur = <<Utterance(1, 12, 2)>>

\* C8: when the utterance of page p ends naturally while narration is
\* speaking: if p is not the last page the animator is advanced and a
\* settle-delay timer for page p + 1 is set, otherwise narration is idle and
\* nothing advances; and when a settle-delay timer for page q fires,
\* narration of page q is started at offset 0.
C8_NaturalEndAdvances ==
    [][/\ (last' = "onend" /\ speaking /\ ~paused /\ synth.cur # <<>>)
          => /\ ~speaking' /\ ~paused' /\ synth'.cur = <<>>
             /\ IF synth.cur[1].page < totalPages
                THEN /\ pageFlip' # <<>>
                     /\ \/ pageFlip'[1].target # -1
                        \/ pageFlip # <<>> /\ pageFlip[1].idx = pageFlip[1].n - 1
                     /\ advTimers' = advTimers \cup {synth.cur[1].page + 1}
                ELSE pageFlip' = pageFlip /\ advTimers' = advTimers
       /\ last' = "advTimer"
          => \E q \in advTimers :
                /\ advTimers' = advTimers \ {q}
                /\ \/ /\ speaking' /\ ~paused' /\ synth'.cur # <<>>
                      /\ synth'.cur[1].page = q /\ synth'.cur[1].start = 0
                      /\ synth'.cur[1].pos = -1
                   \/ \E t \in BagToSet(tasks') :
                         /\ t.kind = "tts" /\ t.page = q /\ t.arg = 0
                         /\ CopiesIn(t, tasks') > CopiesIn(t, tasks)
                   \/ toast' = "No text found on this page"]_vars

\* C9: after hideReader the animator is destroyed and unset, in-flight
\* speech is cancelled and narration idle with speakIndex 0, the artifact
\* cache, the text cache and the background queue are empty, currentBook
\* and pdfDoc are unset and currentPage is 1.
C9_HideReaderResets ==
    [][last' = "hideReader"
         => /\ pageFlip' = <<>>
            /\ alive' = alive - (IF pageFlip = <<>> THEN 0 ELSE 1)
            /\ synth'.cur = <<>>
            /\ ~speaking' /\ ~paused' /\ speakIndex' = 0
            /\ renderedPages' = EmptyMap /\ pageTextCache' = EmptyMap
            /\ renderQueue' = <<>>
            /\ currentBook' = 0 /\ pdfDoc' = 0 /\ currentPage' = 1
            /\ ~readerShown']_vars

\* C9 (witness): the reader was closed while an utterance was being spoken.
C9_Witness ==
    /\ last = "hideReader" /\ synth.dying # {} /\ alive = 0 /\ ~readerShown

\* C10: when getDocument rejects, the failure is reported and the session
\* is not opened: currentBook and pdfDoc are unset and no animator exists.
C10_FailedOpenLeavesNoSession ==
    last = "openBookFailed" =>
        /\ toast = "Failed to open book"
        /\ currentBook = 0 /\ pdfDoc = 0 /\ pageFlip = <<>>

\* C11: a failed render is isolated. In the step in which the render of page
\* q fails, no artifact is stored and no page element changes; the other
\* pages the same ensurePagesRendered call or background batch awaits stay
\* awaited, and a render that succeeds (in a reader that was not closed)
\* stores its artifact; when the failed render was the last of its batch and
\* pages remain queued, the timer of the next batch is set; when it was the
\* last of an ensurePagesRendered call, the call completes; and a later
\* render request for q, while a document is open and q is still absent,
\* goes to the document source again.
C11_RenderFailureIsolated ==
    [][ev'.rendered # <<>> =>
        LET r == ev'.rendered[1]
        IN  /\ (r.ok /\ ~r.stale) => renderedPages'[r.page] = r.doc
            /\ ~r.ok =>
                /\ renderedPages' = renderedPages /\ dom' = dom
                /\ r.rest # {} =>
                      \E t \in BagToSet(tasks') :
                          /\ t.kind = r.kind /\ t.doc = r.doc
                          /\ t.waiting = r.rest /\ r.page \in t.failed
                /\ (r.kind = "bg" /\ r.rest = {} /\ renderQueue # <<>>) => bgTimer'
                /\ (r.kind \in {"flip", "resize"} /\ r.rest = {}) =>
                      /\ ensured' # <<>> /\ r.page \in ensured'[1].failed
                /\ (pdfDoc' # 0 /\ renderedPages'[r.page] = 0) =>
                      r.page \in ToFetch(St', {r.page})]_vars

\* C11 (witness): of the first background batch of book 1 (pages 4, 5, 6)
\* the render of page 6 failed last: pages 4 and 5 are stored, page 6 is
\* not, and the timer of the next batch is set.
C11_Witness ==
    /\ ev.rendered = <<[page |-> 6, doc |-> 1, ok |-> FALSE, kind |-> "bg",
                        rest |-> {}, stale |-> FALSE]>>
    /\ renderedPages[4] = 1 /\ renderedPages[5] = 1 /\ renderedPages[6] = 0
    /\ dom[6] = 0 /\ bgTimer /\ renderQueue = <<7>>

\* C12: when startTTSForPage finds that the text of its page is empty, it
\* reports that there is nothing to read, issues no speak request (the
\* engine gets no new utterance), and narration is idle afterwards: speaking
\* and paused are false.
C12_EmptyPageLeavesIdle ==
    [][ev'.reported = "No text found on this page"
         => /\ ~speaking' /\ ~paused'
            /\ synth'.cur = <<>> \/ synth'.cur = synth.cur]_vars

\* C13: viewport changes are debounced into one teardown and recreation. A
\* resize or orientationchange event, and the expiry of a listener's
\* debounce timer, leave the animator alone; the teardown timer
\* (window.resizeTimeout) is set only when a debounce timer expires, and at
\* most one is pending; and when it fires while a book is open with an
\* animator, exactly one animator is destroyed and one created (the number
\* alive is unchanged), no further recreation stays scheduled, and the new
\* animator has the mode of the width the viewport has then.
C13_OneRecreationPerBurst ==
    [][/\ last' \in {"resize", "orientationchange", "resizeTimer", "orientationTimer"}
          => pageFlip' = pageFlip /\ alive' = alive
       /\ last' = "resize" => resizeTimer' /\ resizeTimeout' = resizeTimeout
       /\ (resizeTimeout' /\ ~resizeTimeout)
          => last' \in {"resizeTimer", "orientationTimer"}
       /\ last' = "reinit"
          => /\ resizeTimeout /\ ~resizeTimeout'
             /\ (pageFlip # <<>> /\ currentBook # 0)
                => /\ alive' = alive /\ pageFlip' # <<>>
                   /\ pageFlip'[1].display =
                         IF innerWidth' <= 768 THEN "single" ELSE "double"]_vars

\* C13 (witness): besides the opening of book 2 there were two viewport
\* changes, the last one to width 500, no page was turned, and the teardown
\* timer has fired: one animator is alive, in single mode.
C13_Witness ==
    /\ last = "reinit" /\ budget = MaxInputs - 3 /\ currentBook = 2
    /\ currentPage = 1 /\ pageFlip[1].target = -1
    /\ innerWidth = 500 /\ alive = 1 /\ pageFlip # <<>>
    /\ pageFlip[1].display = "single" /\ ~resizeTimer /\ ~resizeTimeout /\ ~orientTimer
    /\ ensured # <<>>

C15_CreatedWithModeOfWidth ==
    [][last' \in {"openBookLoaded", "openBookLoaded.stale", "reinit"}
         => /\ pageFlip' # <<>>
            /\ pageFlip'[1].display =
                  IF innerWidth' <= 768 THEN "single" ELSE "double"]_vars

\* C16: navigation is a no-op at the boundaries: with a document open, next
\* at current page N (the last page) and previous at current page 1 leave
\* the current page where it is: they start no flip, or only one whose
\* notification reports the current page again.
C16_NoOpAtBoundaries ==
    (readerShown /\ pdfDoc # 0 /\ pageFlip # <<>>) =>
        /\ currentPage = totalPages =>
              \/ flipNext(St).pageFlip = pageFlip
              \/ Min(totalPages, flipNext(St).pageFlip[1].target + 1) = currentPage
        /\ currentPage = 1 =>
              \/ flipPrev(St).pageFlip = pageFlip
              \/ Min(totalPages, flipPrev(St).pageFlip[1].target + 1) = currentPage

\* C17: goToPage(n) clamps n to [1, pageCount]: whatever n is asked of the
\* slider while an animator exists (and is not in the middle of a flip), the
\* animator is driven to page min(max(n, 1), pageCount), or is on it
\* already.
C17_GoToPageClamps ==
    [][(last' = "goToPage" /\ pageFlip # <<>> /\ pageFlip[1].target = -1)
         => LET n == ev'.request
                c == Min(Max(n, 1), totalPages)
            IN  /\ pageFlip' # <<>>
                /\ \/ pageFlip'[1].target = c - 1
                   \/ pageFlip[1].idx = c - 1 /\ pageFlip' = pageFlip]_vars

\* C18: currentPage is a derived read of what the animator last reported.
\* It changes only in the animator's flip notification and on close; the
\* flip notification sets it to min(totalPages, reported index + 1) and
\* close sets it to 1. Next, previous, the slider, the auto-advance of
\* narration, renders and the resize recreation leave it unchanged.
C18_CurrentPageOnlyFromFlip ==
    [][/\ currentPage' # currentPage => last' \in {"flip", "hideReader"}
       /\ last' = "flip"
          => /\ pageFlip' # <<>>
             /\ currentPage' = Min(totalPages', pageFlip'[1].idx + 1)
       /\ last' = "hideReader" => currentPage' = 1
       /\ last' \in {"next", "previous", "goToPage", "onend", "advTimer",
                     "renderPage", "reinit"}
          => currentPage' = currentPage]_vars

\* C18 (witness): narration of page 1 ended and advanced the animator, and
\* the flip notification has set currentPage to 2 while the settle-delay
\* timer of page 2 is pending.
C18_Witness ==
    /\ last = "flip" /\ currentPage = 2 /\ advTimers = {2}
    /\ pageFlip # <<>> /\ pageFlip[1].idx = 1 /\ budget = MaxInputs - 2

\* C19: on open the first min(totalPages, PRELOAD_PAGES) pages are rendered
\* one after another at preview quality and then rendered again at
\* standard quality, and only then are the pages PRELOAD_PAGES + 1 ..
\* totalPages queued. So in the step that starts the background rendering
\* the preload has no render outstanding, every preloaded page already had
\* an artifact (its preview) before the step, in which the last upgrade
\* completes, and the pages queued or in the first batch are those beyond
\* the preload.
C19_PreviewUpgradeThenQueue ==
    [][(~backgroundRendering /\ backgroundRendering' /\ pdfDoc' # 0)
         => /\ \A t \in BagToSet(tasks') : t.kind = "preload" => t.stale
            /\ \A p \in 1..Min(totalPages', PRELOAD_PAGES) : renderedPages[p] # 0
            /\ \A i \in 1..Len(renderQueue') :
                  renderQueue'[i] \in (PRELOAD_PAGES + 1)..totalPages'
            /\ \A t \in BagToSet(tasks') :
                  (t.kind = "bg" /\ ~t.stale)
                     => t.waiting \subseteq (PRELOAD_PAGES + 1)..totalPages']_vars

\* The batch loops that are active: the batches being rendered and the
\* pending timer of a next batch.
BatchLoops ==
    LET bg == {t \in BagToSet(tasks) : t.kind = "bg"}
        RECURSIVE Sum(_)
        Sum(S) == IF S = {} THEN 0
                  ELSE LET x == CHOOSE y \in S : TRUE
                       IN  CopiesIn(x, tasks) + Sum(S \ {x})
    IN  Sum(bg) + (IF bgTimer THEN 1 ELSE 0)

\* C20: background rendering proceeds in bounded FIFO batches. At most one
\* batch loop is active, and only while backgroundRendering is true. Unless
\* the reader is closed, a step takes from renderQueue (extended by the
\* pages PRELOAD_PAGES + 1 .. totalPages when the step starts the loop) at
\* most 3 pages, from its head, leaving the rest in order, and the batch it
\* renders consists of pages taken; it takes any only when it starts the
\* loop or when the delay timer fires, which is set only when no render of
\* the previous batch is outstanding.
C20_BoundedFifoBatches ==
    [][/\ BatchLoops <= 1
       /\ BatchLoops = 1 => backgroundRendering
       /\ last' # "hideReader" =>
            LET starts == ~backgroundRendering /\ backgroundRendering'
                Q == IF starts
                     THEN renderQueue \o [i \in 1..Max(0, totalPages' - PRELOAD_PAGES)
                                             |-> PRELOAD_PAGES + i]
                     ELSE renderQueue
                k == Len(Q) - Len(renderQueue')
            IN  /\ k >= 0 /\ k <= 3
                /\ renderQueue' = SubSeq(Q, k + 1, Len(Q))
                /\ k > 0 => starts \/ (last' = "renderNextBatch" /\ bgTimer)
                /\ \A t \in BagToSet(tasks') :
                      (t.kind = "bg" /\ CopiesIn(t, tasks') > CopiesIn(t, tasks))
                         => \/ t.waiting \subseteq {Q[i] : i \in 1..k}
                            \/ (ev'.rendered # <<>> /\ ev'.rendered[1].kind = "bg")
       /\ (bgTimer' /\ ~bgTimer) =>
            \A t \in BagToSet(tasks') : t.kind # "bg"]_vars

\* C20 (witness): the delay timer has fired after the first batch of book 1
\* (pages 4, 5, 6) was rendered, and the second batch, page 7, is being
\* rendered.
C20_Witness ==
    /\ last = "renderNextBatch" /\ backgroundRendering /\ ~bgTimer
    /\ renderQueue = <<>> /\ \A p \in 4..6 : renderedPages[p] = 1
    /\ \E t \in BagToSet(tasks) : t.kind = "bg" /\ ~t.stale /\ t.waiting = {7}

\* The text extractions of page q of document d that are outstanding and
\* were issued in the session that is still open.
TextInFlight(q, d) ==
    LET ts == {t \in BagToSet(tasks) :
                 t.kind = "tts" /\ ~t.stale /\ t.doc = d /\ t.page = q}
        RECURSIVE Sum(_)
        Sum(S) == IF S = {} THEN 0
                  ELSE LET x == CHOOSE y \in S : TRUE
                       IN  CopiesIn(x, tasks) + Sum(S \ {x})
    IN  Sum(ts)

\* C21: within one session the text of a page is extracted at most once,
\* whoever calls extractPageText: no two extractions of the same page of the
\* open document are outstanding, and none is outstanding for a page whose
\* text is cached.
C21_AtMostOneExtractionPerPage ==
    \A q \in Pages : \A d \in Books :
        /\ TextInFlight(q, d) <= 1
        /\ (pdfDoc = d /\ pageTextCache[q] = d) => TextInFlight(q, d) = 0

\* C22: without a speech engine the lack of speech synthesis is reported
\* once, at the first narration attempt: it is never reported while the
\* toast still shows that report; and narration stays idle, the engine
\* never gets an utterance.
C22_UnsupportedReportedOnce ==
    [][~hasSpeech =>
         /\ ev'.reported = "Speech Synthesis not supported in this browser"
               => toast # "Speech Synthesis not supported in this browser"
         /\ ~speaking' /\ ~paused' /\ synth'.cur = <<>>]_vars

\* C23: a stale callback is silently discarded: the completion of a render
\* or of a text extraction requested in a reader that was closed since, and
\* a notification of the speech engine or a settle-delay timer that arrives
\* while no book is open, show no toast.
C23_StaleCallbackSilent ==
    [][(\/ last' \in {"renderPage.stale", "startTTSForPage.stale"}
        \/ /\ currentBook = 0
           /\ last' \in {"onboundary", "onend", "onerror", "onendCancelled",
                         "onerrorCancelled", "advTimer"})
         => ev'.reported = ""]_vars

\* C24: the page is preserved across a resize recreation: when the teardown
\* timer has destroyed and recreated the animator of an open book, the new
\* animator displays the page that was the current page before, and that
\* page is still the current page.
C24_PagePreservedOnResize ==
    [][(last' = "reinit" /\ pageFlip # <<>> /\ currentBook # 0)
         => /\ pageFlip' # <<>>
            /\ pageFlip'[1].idx + 1 = currentPage
            /\ currentPage' = currentPage]_vars

\* C25: resume from paused has two equivalent paths. When the engine
\* reports that it is paused, the utterance it holds is resumed and no new
\* one is issued; otherwise a new utterance is issued. In both paths
\* narration is speaking afterwards, and both speak the same remaining
\* text: the new utterance is of the page that was being narrated and
\* starts at the offset narration had reached in it (the start offset of
\* the paused utterance plus the last boundary it reported). Stated for a
\* pause of the narration of the current page with no flip in progress.
C25_ResumePathsEquivalent ==
    [][(/\ last' = "toggleTTS" /\ speaking /\ paused /\ synth.cur # <<>>
        /\ pageFlip # <<>> /\ pageFlip[1].target = -1
        /\ synth.cur[1].page = currentPage)
         => LET u == synth.cur[1]
                reached == u.start + (IF u.pos >= 0 THEN u.pos ELSE 0)
            IN  /\ speaking' /\ ~paused'
                /\ IF synth.paused
                   THEN synth'.cur = synth.cur /\ ~synth'.paused
                   ELSE /\ synth'.cur # <<>>
                        /\ synth'.cur[1].page = u.page
                        /\ synth'.cur[1].doc = u.doc
                        /\ synth'.cur[1].start = reached
                        /\ synth'.cur[1].pos = -1]_vars

\* C26: the end notification of an utterance that was removed by cancel()
\* (of stopTTS, of hideReader, or of startTTSForPage before it speaks a new
\* utterance) is not a natural end: it does not advance the animator, sets
\* no settle-delay timer and starts no narration.
C26_CancelledEndAdvancesNothing ==
    [][last' = "onendCancelled"
         => /\ pageFlip' = pageFlip
            /\ advTimers' = advTimers
            /\ synth'.cur = synth.cur
            /\ \A t \in BagToSet(tasks') :
                  t.kind = "tts" => CopiesIn(t, tasks') <= CopiesIn(t, tasks)]_vars

\* C27: stop is final until the user starts narration again: once stopTTS
\* has run and the user has done nothing since, narration is idle and the
\* engine holds no utterance, whatever timer or text extraction was pending
\* when narration was stopped.
C27_StopIsFinal ==
    budget = 0 => /\ ~speaking /\ ~paused /\ synth.cur = <<>>

\* C28: an animator exists only while a document is open: whenever pageFlip
\* is set, currentBook is set.
C28_AnimatorOnlyWhileOpen == pageFlip # <<>> => currentBook # 0

\* C29: while a document is open, every page number with a resident artifact
\* in renderedPages lies in 1..totalPages and its artifact was rendered
\* from the open document.
C29_ArtifactsOfOpenDocument ==
    (currentBook # 0 /\ pdfDoc # 0) =>
        \A q \in Pages :
            renderedPages[q] # 0 => (q <= totalPages /\ renderedPages[q] = pdfDoc)

\* C30: displayed surfaces agree with the cache: whenever an animator
\* exists and no render of page p is outstanding, a resident artifact of p
\* is what the mounted surface of p shows, not the loading placeholder.
C30_SurfaceShowsArtifact ==
    pageFlip # <<>> =>
        \A q \in 1..Len(dom) :
            (/\ renderedPages[q] # 0
             /\ \A t \in BagToSet(tasks) :
                    t.kind \in {"flip", "resize", "preload", "bg"} => q \notin t.waiting)
                => dom[q] = renderedPages[q]

\* C31: the resume offset refers to the page being started: whenever
\* narration that is not paused issues a speak request for page p with a
\* start offset o > 0, the engine was speaking an utterance of that same
\* page whose last reported boundary is at o; an offset recorded on another
\* page or left over from an utterance that has ended is not used.
C31_OffsetOfPageBeingStarted ==
    [][(/\ ~paused
        /\ synth'.cur # <<>> /\ synth'.cur # synth.cur
        /\ synth'.cur[1].pos = -1 /\ synth'.cur[1].start > 0)
       => /\ synth.cur # <<>>
          /\ synth.cur[1].page = synth'.cur[1].page
          /\ synth.cur[1].doc = synth'.cur[1].doc
          /\ synth.cur[1].pos >= 0
          /\ synth.cur[1].start + synth.cur[1].pos = synth'.cur[1].start]_vars

\* C32: after a document has been opened every page beyond the preload
\* range is scheduled: once the preload of openBook has finished (no
\* openBook call is suspended any more), each page in
\* PRELOAD_PAGES+1..totalPages is resident in renderedPages, in renderQueue,
\* or in a background batch being rendered.
C32_PagesBeyondPreloadScheduled ==
    (/\ currentBook # 0 /\ pdfDoc = currentBook
     /\ \A t \in BagToSet(tasks) : t.kind \notin {"open", "preload"})
    => \A q \in (PRELOAD_PAGES + 1)..totalPages :
          \/ renderedPages[q] # 0
          \/ \E i \in 1..Len(renderQueue) : renderQueue[i] = q
          \/ \E t \in BagToSet(tasks) : t.kind = "bg" /\ q \in t.waiting

\* The reader is open on a document.
DocumentOpen == currentBook # 0 /\ readerShown

\* Every page of the open document is resident and the background loop has
\* come to rest.
AllRendered ==
    /\ pdfDoc = currentBook /\ totalPages = NumPages(pdfDoc)
    /\ \A q \in 1..totalPages : renderedPages[q] # 0
    /\ renderQueue = <<>> /\ ~backgroundRendering

\* C33: if the document stays open and every call of the document source
\* succeeds, then eventually every page 1..totalPages has a resident
\* artifact, renderQueue is empty and backgroundRendering is false.
C33_EventuallyAllRendered == []([]DocumentOpen => <>AllRendered)

\* C34: the backgroundRendering flag is consistent with the queue: a
\* non-empty renderQueue implies backgroundRendering, and backgroundRendering
\* implies that a background batch is in flight or the timer between two
\* batches is pending.
C34_FlagConsistentWithQueue ==
    /\ renderQueue # <<>> => backgroundRendering
    /\ backgroundRendering =>
          \/ bgTimer
          \/ \E t \in BagToSet(tasks) : t.kind = "bg"

\* C34 witness: the first batch of the long book has been rendered, pages
\* remain in the queue and the timer of the next batch is pending.
C34_Witness ==
    /\ last = "renderPage" /\ backgroundRendering /\ bgTimer
    /\ renderQueue # <<>> /\ currentBook # 0

\* C35: the narration flags encode one of the states idle, speaking and
\* paused: paused implies speaking.
C35_PausedImpliesSpeaking == paused => speaking

\* C35 witness: narration was paused by the user and the utterance then
\* came to its end in an engine that does not honour pause; the flags still
\* say paused.
C35_Witness == last = "onend" /\ paused /\ speaking /\ synth.cur = <<>>

\* C36: the speaking state is never phantom: whenever speaking is true and
\* paused is false, a speak request is outstanding at the speech engine (or
\* the text of the page to speak is still being extracted).
C36_SpeakingIsNotPhantom ==
    (/\ speaking /\ ~paused
     /\ \A t \in BagToSet(tasks) : t.kind # "tts")
    => synth.cur # <<>>

\* The handler of a page-turn notification resumes: the last render that
\* its ensurePagesRendered call awaited has settled.
FlipResumed ==
    /\ ev'.rendered # <<>>
    /\ ev'.rendered[1].kind = "flip" /\ ev'.rendered[1].rest = {}

\* C37: a page-turn notification that arrives while narration is idle or
\* paused does not start or alter narration: no speak request is issued, no
\* speech is cancelled, and speaking, paused and the resume offset are
\* unchanged, neither in the step in which it arrives nor when its handler
\* resumes after the neighbourhood has been rendered. (In SpecQuietFlip every
\* notification arrives while narration is idle, so every resumption is that
\* of such a notification.)
C37_FlipLeavesIdleNarration ==
    [][((last' = "flip" /\ (~speaking \/ paused)) \/ FlipResumed)
       => /\ synth' = synth
          /\ speaking' = speaking /\ paused' = paused /\ speakIndex' = speakIndex
          /\ advTimers' = advTimers
          /\ \A t \in BagToSet(tasks') :
                t.kind = "tts" => CopiesIn(t, tasks') = CopiesIn(t, tasks)]_vars

\* C38: neighbourhood rendering has priority: in the step of a page-changed
\* notification the render of every missing page of the neighbourhood of
\* the new current page is requested, whether or not renderQueue is
\* non-empty or a background batch is in flight, and no page still in the
\* background queue is requested before them (the queue is left as it is).
C38_NeighbourhoodFirst ==
    [][(last' = "flip" /\ pdfDoc # 0)
       => /\ \A q \in Neighborhood(St', currentPage') :
                renderedPages[q] = 0 =>
                    \E t \in BagToSet(tasks') :
                        /\ t.kind = "flip" /\ t.page = currentPage' /\ q \in t.waiting
                        /\ CopiesIn(t, tasks') > CopiesIn(t, tasks)
          /\ renderQueue' = renderQueue /\ bgTimer' = bgTimer
          /\ \A t \in BagToSet(tasks') :
                t.kind = "bg" => CopiesIn(t, tasks') = CopiesIn(t, tasks)]_vars

\* C38 witness: a page turn was notified while a background batch was in
\* flight and pages were still queued, and its handler awaits the render of
\* a missing page of the neighbourhood.
C38_Witness ==
    /\ last = "flip" /\ renderQueue # <<>>
    /\ \E t \in BagToSet(tasks) : t.kind = "bg" /\ ~t.stale
    /\ \E t \in BagToSet(tasks) :
          t.kind = "flip" /\ t.page = currentPage /\ t.waiting # {}

\* C39: an error of the speech engine on an utterance returns narration to
\* idle (speaking and paused false) and leaves currentPage, the animator,
\* renderedPages, pageTextCache and the background queue unchanged; it
\* neither advances the page nor schedules further narration.
C39_EngineErrorIsolated ==
    [][last' \in {"onerror", "onerrorCancelled"}
       => /\ ~speaking' /\ ~paused'
          /\ currentPage' = currentPage /\ pageFlip' = pageFlip
          /\ currentBook' = currentBook /\ pdfDoc' = pdfDoc
          /\ renderedPages' = renderedPages /\ pageTextCache' = pageTextCache
          /\ renderQueue' = renderQueue /\ backgroundRendering' = backgroundRendering
          /\ bgTimer' = bgTimer /\ dom' = dom
          /\ advTimers' = advTimers /\ tasks' = tasks
          /\ synth'.cur \in {synth.cur, <<>>}]_vars

\* C39 witness: the engine failed on the utterance of page 1 of an open
\* book after it had reported a boundary; narration is idle on page 1.
C39_Witness ==
    /\ last = "onerror" /\ currentBook # 0 /\ pageFlip # <<>>
    /\ currentPage = 1 /\ speakIndex > 0 /\ ~speaking /\ toast = "TTS error occurred"

\* C40: whenever a document is open, 1 <= currentPage <= totalPages.
C40_CurrentPageInRange ==
    (currentBook # 0 /\ pdfDoc # 0) => (1 <= currentPage /\ currentPage <= totalPages)

====
